---- MODULE Spec2Model ----
(***************************************************************************)
(* Model of src/text.py: the sound-reactive LED strip driver.              *)
(*                                                                         *)
(* The program is one endless loop (lines 121-136).  Each cycle reads a    *)
(* block of samples, derives decibels and three band energies from it,     *)
(* maps the energies to a colour, blends that colour into the displayed    *)
(* colour, and hands the mean of decibel_history together with the         *)
(* displayed colour to set_pixels_brightness_and_color, which assigns the  *)
(* pixels ring by ring from the centre and then flushes the strip.         *)
(*                                                                         *)
(* Numbers.  The code computes in IEEE-754 floating point and truncates    *)
(* with int().  Every quantity that reaches an int() is modelled as an     *)
(* exact rational with integer numerator and denominator, truncated the    *)
(* way int() truncates; the few inputs on which the double-precision       *)
(* result falls just short of the exact value (and int() therefore yields  *)
(* one less) are listed in BrightnessFallsShort and ScaleFallsShort.       *)
(* A float that is not a number is the value NaN.                          *)
(***************************************************************************)
EXTENDS Integers, Sequences, FiniteSets

(***************************************************************************)
(* Program constants (lines 10-17).                                        *)
(***************************************************************************)
NUM_PIXELS == 21
SENSITIVITY == 4
BRIGHTNESS_SCALE_NUM == 3
BRIGHTNESS_SCALE_DEN == 2
SMOOTHING_WINDOW_SIZE == 10
COLOR_SMOOTHING_NUM == 1
COLOR_SMOOTHING_DEN == 10
BASE_THRESHOLD == 40
THRESHOLD_STEP == 5

(***************************************************************************)
(* Bounds of the model.                                                    *)
(***************************************************************************)
\* number of samples of a block (CHUNK is 1024 in the program)
ChunkLen == 1
\* a sample is -MaxAmplitude, 0 or MaxAmplitude (any int16 in the program)
MaxAmplitude == 1
\* each band energy ranges over 0..MaxEnergy
MaxEnergy == 1
\* the decibel reading given to a block with rms below 1 (-MaxFaintDecibels)
\* and to a block with rms above 1 (MaxLoudDecibels)
MaxFaintDecibels == 30
MaxLoudDecibels == 90
\* readings pushed into the decibel history on its own
MaxPushes == 12
\* cycles in which the audio source may deliver any block; afterwards it
\* delivers silence
MaxLoudCycles == 1
\* decibel arguments tried on the distributor on its own:
\* MinDecibelInput + DecibelInputStep * k, k in 0..MaxDecibelSteps
MinDecibelInput == 30
DecibelInputStep == 5
MaxDecibelSteps == 14

VARIABLES
    pc,               \* position of the main loop
    cycles,           \* number of blocks read so far, capped at MaxLoudCycles
    data,             \* the block read by this cycle
    decibels,         \* main loop's decibels (line 125)
    low_energy,       \* main loop's low_energy (line 125)
    mid_energy,       \* main loop's mid_energy (line 125)
    high_energy,      \* main loop's high_energy (line 125)
    new_color,        \* main loop's new_color (line 128)
    current_color,    \* global current_color (lines 43, 131)
    decibel_history,  \* global decibel_history (line 42)
    arg_decibels,     \* parameter decibels of set_pixels_brightness_and_color
    arg_color,        \* parameter color of set_pixels_brightness_and_color
    i,                \* loop variable of set_pixels_brightness_and_color
    pixels,           \* buffered pixel values of the strip (line 26)
    writes,           \* history: assignments to each pixel in the current pass
    shows,            \* history: calls of pixels.show() in the current cycle
    divided,          \* history: get_gradient_color took the dividing branch
    pushed            \* history: the readings pushed into decibel_history

vars == <<pc, cycles, data, decibels, low_energy, mid_energy, high_energy,
          new_color, current_color, decibel_history, arg_decibels, arg_color,
          i, pixels, writes, shows, divided, pushed>>

(***************************************************************************)
(* Floats: a number num/den (den > 0), or NaN.                             *)
(***************************************************************************)
NaN == [nan |-> TRUE, num |-> 0, den |-> 1]
Num(n) == [nan |-> FALSE, num |-> n, den |-> 1]
Ratio(n, d) == [nan |-> FALSE, num |-> n, den |-> d]

\* int(): truncation toward zero of a / b, b > 0
Trunc(a, b) == IF a >= 0 THEN a \div b ELSE -((-a) \div b)

Max2(a, b) == IF a >= b THEN a ELSE b
Min2(a, b) == IF a <= b THEN a ELSE b

Black == <<0, 0, 0>>
PixelIndex == 0 .. (NUM_PIXELS - 1)

RECURSIVE SeqSum(_)
SeqSum(s) == IF Len(s) = 0 THEN 0 ELSE Head(s) + SeqSum(Tail(s))

(***************************************************************************)
(* get_volume_and_frequencies (lines 45-71).                               *)
(*                                                                         *)
(* rms = sqrt(mean(data^2)) is positive exactly when some sample is not    *)
(* zero, and 20 * log10(rms) is negative, zero or positive as the sum of   *)
(* the squares is below, equal to or above the number of samples.  The     *)
(* logarithm itself is not computed: a reading below 0 is modelled by      *)
(* -MaxFaintDecibels and a reading above 0 by MaxLoudDecibels.             *)
(* The short-time Fourier transform is not computed either: a non-silent   *)
(* block is given any three band energies of 0..MaxEnergy.  A block of     *)
(* zeros has a zero spectrogram (the transform is linear), so its band     *)
(* sums are zero.  mean_freq (lines 62-63) is read by nothing and is left  *)
(* out.                                                                    *)
(***************************************************************************)
Samples == {-MaxAmplitude, 0, MaxAmplitude}
Blocks == [1 .. ChunkLen -> Samples]
ZeroBlock == [k \in 1 .. ChunkLen |-> 0]

SumSq(d) == SeqSum([k \in 1 .. ChunkLen |-> d[k] * d[k]])

\* line 50 and the test of line 65
RmsPositive(d) == SumSq(d) > 0

NegInf == [nan |-> FALSE, num |-> -1, den |-> 0]

\* line 67
Log10Rms(d) ==
    IF SumSq(d) < ChunkLen THEN Num(-MaxFaintDecibels)
    ELSE IF SumSq(d) = ChunkLen THEN Num(0)
    ELSE Num(MaxLoudDecibels)

\* the reading without the test of line 65: log10(0) is minus infinity
DecibelReadingUnguarded(d) ==
    IF RmsPositive(d) THEN Log10Rms(d) ELSE NegInf

\* lines 65-69
DecibelReading(d) ==
    IF RmsPositive(d) THEN Log10Rms(d) ELSE Num(0)

\* lines 53-59
BandEnergies(d) ==
    IF RmsPositive(d)
    THEN (0 .. MaxEnergy) \X (0 .. MaxEnergy) \X (0 .. MaxEnergy)
    ELSE {<<0, 0, 0>>}

(***************************************************************************)
(* get_gradient_color (lines 73-90).  red = int(255 * (low / total)^2) is  *)
(* the truncation of 255 * low^2 / total^2, and likewise green and blue.   *)
(***************************************************************************)
\* the total without the high band
TotalEnergyLowMid(low, mid, high) == low + mid

\* line 76
TotalEnergy(low, mid, high) == low + mid + high

\* line 77: TRUE when the function goes on to the divisions of lines 81-83
Divides(low, mid, high) == TotalEnergy(low, mid, high) # 0

get_gradient_color(low, mid, high) ==
    LET total == TotalEnergy(low, mid, high)
        tt == total * total
    IN  IF total = 0
        THEN Black
        ELSE << Trunc(255 * low * low, tt),
                Trunc(255 * high * high, tt),
                Trunc(128 * low * low + 255 * mid * mid + 255 * high * high, tt) >>

(***************************************************************************)
(* smooth_color (lines 92-94) with smoothing_factor = fnum / fden:         *)
(* int(old_c + smoothing_factor * (new_c - old_c)) per channel.            *)
(***************************************************************************)
\* rounding to the nearest integer instead of truncating
smooth_color_rounding(new, old, fnum, fden) ==
    [k \in 1 .. 3 |->
        (2 * (fden * old[k] + fnum * (new[k] - old[k])) + fden) \div (2 * fden)]

smooth_color(new, old, fnum, fden) ==
    [k \in 1 .. 3 |-> Trunc(fden * old[k] + fnum * (new[k] - old[k]), fden)]

(***************************************************************************)
(* np.mean(decibel_history) (line 134): the mean of no values is NaN (and  *)
(* a warning), not an exception.                                           *)
(***************************************************************************)
Mean(h) ==
    IF Len(h) = 0
    THEN NaN
    ELSE Ratio(SeqSum([k \in 1 .. Len(h) |-> h[k].num]), Len(h))

(***************************************************************************)
(* set_pixels_brightness_and_color (lines 96-118), one ring at a time.     *)
(***************************************************************************)
\* line 98
mid_point == NUM_PIXELS \div 2

\* a base threshold of 30 instead of 40
ThresholdBase30(k) == 30 + (k * THRESHOLD_STEP)

\* line 102
Threshold(k) == BASE_THRESHOLD + (k * THRESHOLD_STEP)

\* line 104: a comparison with NaN is false
AtLeast(d, th) == (~d.nan) /\ d.num >= th * d.den

\* The double-precision product of line 105 falls just short of its exact
\* value, an integer, so that int() yields one less.  Found by evaluating
\* line 105 on every integer decibels with decibels - threshold < 400;
\* listed for the results that the clamp of line 106 leaves below 255.
BrightnessFallsShort(d, k) ==
    /\ d.den = 1
    /\ LET x == d.num - Threshold(k)
       IN  \/ k \in {8, 9} /\ x > 0 /\ x % 5 = 0
           \/ k = 3 /\ x = 45

\* lines 101-108; sensitivity_scale = 1 - k / mid_point
Brightness(d, k) ==
    IF AtLeast(d, Threshold(k))
    THEN LET exact == Trunc((d.num - Threshold(k) * d.den) * SENSITIVITY
                              * (mid_point - k) * BRIGHTNESS_SCALE_NUM,
                            d.den * mid_point * BRIGHTNESS_SCALE_DEN)
             raw == IF BrightnessFallsShort(d, k) THEN exact - 1 ELSE exact
         IN  Max2(Min2(raw, 255), 0)
    ELSE 0

\* the pairs <<c, brightness>> of 0..255 on which c * (brightness / 255)
\* falls just short of the integer c * brightness / 255
ScaleFallsShort ==
    { <<51, 155>>, <<75, 187>>, <<85, 147>>, <<85, 171>>, <<102, 155>>,
      <<150, 187>>, <<153, 155>>, <<153, 195>>, <<165, 187>>, <<170, 147>>,
      <<170, 171>>, <<204, 155>> }

\* line 110
ScaledColor(color, brightness) ==
    [k \in 1 .. 3 |->
        IF <<color[k], brightness>> \in ScaleFallsShort
        THEN Trunc(color[k] * brightness, 255) - 1
        ELSE Trunc(color[k] * brightness, 255)]

\* the lower index taken one too high
LowerIndexOffByOne(k) == mid_point - k + 1

\* lines 113-114 and 115-116
UpperIndex(k) == mid_point + k
LowerIndex(k) == mid_point - k

(***************************************************************************)
(* The main loop (lines 121-136).                                          *)
(***************************************************************************)
\* State after lines 1-43.  Names the loop has not bound yet (data, the
\* features, new_color, the distributor's parameters) hold a silent cycle's
\* values; nothing reads them before they are bound.
Init ==
    /\ pc = "read"
    /\ cycles = 0
    /\ data = ZeroBlock
    /\ decibels = Num(0)
    /\ low_energy = 0
    /\ mid_energy = 0
    /\ high_energy = 0
    /\ new_color = Black
    /\ current_color = Black
    /\ decibel_history = << >>
    /\ arg_decibels = Num(0)
    /\ arg_color = Black
    /\ i = 0
    /\ pixels = [k \in PixelIndex |-> Black]
    /\ writes = [k \in PixelIndex |-> 0]
    /\ shows = 0
    /\ divided = FALSE
    /\ pushed = << >>

\* lines 122-125: read a block and analyse it
ReadChunk ==
    /\ pc = "read"
    /\ \E d \in (IF cycles < MaxLoudCycles THEN Blocks ELSE {ZeroBlock}) :
         \E e \in BandEnergies(d) :
           /\ data' = d
           /\ decibels' = DecibelReading(d)
           /\ low_energy' = e[1]
           /\ mid_energy' = e[2]
           /\ high_energy' = e[3]
    /\ cycles' = Min2(cycles + 1, MaxLoudCycles)
    /\ shows' = 0
    /\ pc' = "map"
    /\ UNCHANGED <<new_color, current_color, decibel_history, arg_decibels,
                   arg_color, i, pixels, writes, divided,
                   pushed>>

\* line 128
MapColor ==
    /\ pc = "map"
    /\ new_color' = get_gradient_color(low_energy, mid_energy, high_energy)
    /\ divided' = Divides(low_energy, mid_energy, high_energy)
    /\ pc' = "smooth"
    /\ UNCHANGED <<cycles, data, decibels, low_energy, mid_energy, high_energy,
                   current_color, decibel_history, arg_decibels, arg_color,
                   i, pixels, writes, shows,
                   pushed>>

\* line 131
SmoothColor ==
    /\ pc = "smooth"
    /\ current_color' = smooth_color(new_color, current_color,
                                     COLOR_SMOOTHING_NUM, COLOR_SMOOTHING_DEN)
    /\ pc' = "call"
    /\ UNCHANGED <<cycles, data, decibels, low_energy, mid_energy, high_energy,
                   new_color, decibel_history, arg_decibels, arg_color,
                   i, pixels, writes, shows, divided,
                   pushed>>

\* line 134: evaluate the arguments and enter the distributor (lines 96-100)
CallDistributor ==
    /\ pc = "call"
    /\ arg_decibels' = Mean(decibel_history)
    /\ arg_color' = current_color
    /\ i' = 0
    /\ writes' = [k \in PixelIndex |-> 0]
    /\ pc' = "ring"
    /\ UNCHANGED <<cycles, data, decibels, low_energy, mid_energy, high_energy,
                   new_color, current_color, decibel_history, pixels, shows,
                   divided,
                   pushed>>

\* the two assignments of lines 113-116, in program order
AssignRing(px, k, c) ==
    LET up == IF UpperIndex(k) < NUM_PIXELS
              THEN [px EXCEPT ![UpperIndex(k)] = c] ELSE px
    IN  IF LowerIndex(k) >= 0
        THEN [up EXCEPT ![LowerIndex(k)] = c] ELSE up

\* the assignments of lines 113-116, counted
CountRing(w, k) ==
    LET up == IF UpperIndex(k) < NUM_PIXELS
              THEN [w EXCEPT ![UpperIndex(k)] = @ + 1] ELSE w
    IN  IF LowerIndex(k) >= 0
        THEN [up EXCEPT ![LowerIndex(k)] = @ + 1] ELSE up

\* one iteration that also flushes the strip
RingStepFlushing ==
    /\ pc = "ring"
    /\ i <= mid_point
    /\ pixels' = AssignRing(pixels, i,
                            ScaledColor(arg_color, Brightness(arg_decibels, i)))
    /\ writes' = CountRing(writes, i)
    /\ shows' = shows + 1
    /\ i' = i + 1
    /\ UNCHANGED <<pc, cycles, data, decibels, low_energy, mid_energy,
                   high_energy, new_color, current_color, decibel_history,
                   arg_decibels, arg_color, divided,
                   pushed>>

\* lines 100-116: one iteration of the loop over the rings
RingStep ==
    /\ pc = "ring"
    /\ i <= mid_point
    /\ pixels' = AssignRing(pixels, i,
                            ScaledColor(arg_color, Brightness(arg_decibels, i)))
    /\ writes' = CountRing(writes, i)
    /\ i' = i + 1
    /\ UNCHANGED <<pc, cycles, data, decibels, low_energy, mid_energy,
                   high_energy, new_color, current_color, decibel_history,
                   arg_decibels, arg_color, shows, divided,
                   pushed>>

\* line 118, reached when the loop is exhausted; the function returns
ShowStrip ==
    /\ pc = "ring"
    /\ i = mid_point + 1
    /\ shows' = shows + 1
    /\ pc' = "sleep"
    /\ UNCHANGED <<cycles, data, decibels, low_energy, mid_energy, high_energy,
                   new_color, current_color, decibel_history, arg_decibels,
                   arg_color, i, pixels, writes, divided,
                   pushed>>

\* line 136, and back to line 121
Sleep ==
    /\ pc = "sleep"
    /\ pc' = "read"
    /\ UNCHANGED <<cycles, data, decibels, low_energy, mid_energy, high_energy,
                   new_color, current_color, decibel_history, arg_decibels,
                   arg_color, i, pixels, writes, shows, divided,
                   pushed>>

Next ==
    \/ ReadChunk
    \/ MapColor
    \/ SmoothColor
    \/ CallDistributor
    \/ RingStep
    \/ ShowStrip
    \/ Sleep

Spec == Init /\ [][Next]_vars

\* The loop never stops: stream.read blocks only until a block is there, and
\* every other statement of a cycle terminates.
FairSpec == Spec /\ WF_vars(Next)

(***************************************************************************)
(* The distributor on its own: set_pixels_brightness_and_color called      *)
(* again and again, each time with any decibel argument of DecibelInputs   *)
(* and any colour of ColorInputs, on the strip the previous call left.     *)
(***************************************************************************)
DecibelInputs ==
    {NaN} \cup { Num(MinDecibelInput + DecibelInputStep * k) :
                    k \in 0 .. MaxDecibelSteps }
ColorInputs ==
    { Black, <<255, 255, 255>>, <<255, 0, 128>>, <<0, 255, 255>>,
      <<28, 28, 70>>, <<153, 51, 204>> }

InitDist ==
    /\ pc = "ring"
    /\ cycles = 0
    /\ data = ZeroBlock
    /\ decibels = Num(0)
    /\ low_energy = 0
    /\ mid_energy = 0
    /\ high_energy = 0
    /\ new_color = Black
    /\ current_color = Black
    /\ decibel_history = << >>
    /\ arg_decibels \in DecibelInputs
    /\ arg_color \in ColorInputs
    /\ i = 0
    /\ pixels = [k \in PixelIndex |-> Black]
    /\ writes = [k \in PixelIndex |-> 0]
    /\ shows = 0
    /\ divided = FALSE
    /\ pushed = << >>

\* the next call of the function (lines 96-100)
NextPass ==
    /\ pc = "sleep"
    /\ arg_decibels' \in DecibelInputs
    /\ arg_color' \in ColorInputs
    /\ i' = 0
    /\ writes' = [k \in PixelIndex |-> 0]
    /\ shows' = 0
    /\ pc' = "ring"
    /\ UNCHANGED <<cycles, data, decibels, low_energy, mid_energy, high_energy,
                   new_color, current_color, decibel_history, pixels, divided,
                   pushed>>

NextDist ==
    \/ RingStep
    \/ ShowStrip
    \/ NextPass

SpecDist == InitDist /\ [][NextDist]_vars

(***************************************************************************)
(* The decibel history on its own.  src/text.py creates the history        *)
(* (line 42) and reads its mean (line 134) but holds no statement that     *)
(* pushes a reading; the push is taken from the design of the Decibel      *)
(* Smoother: append, and evict the oldest reading when the length exceeds  *)
(* the capacity.  The capacity is the maxlen of line 42.                   *)
(***************************************************************************)
\* a capacity one more than the window size
HistoryCapacityOffByOne == SMOOTHING_WINDOW_SIZE + 1

\* line 42: deque(maxlen=SMOOTHING_WINDOW_SIZE)
HistoryCapacity == SMOOTHING_WINDOW_SIZE

HistoryReadings == {Num(-MaxFaintDecibels), Num(MaxLoudDecibels)}

push(h, v) ==
    IF Len(h) + 1 > HistoryCapacity
    THEN Tail(Append(h, v))
    ELSE Append(h, v)

Push ==
    /\ Len(pushed) < MaxPushes
    /\ \E v \in HistoryReadings :
         /\ decibel_history' = push(decibel_history, v)
         /\ pushed' = Append(pushed, v)
    /\ UNCHANGED <<pc, cycles, data, decibels, low_energy, mid_energy,
                   high_energy, new_color, current_color, arg_decibels,
                   arg_color, i, pixels, writes, shows, divided>>

NextHist == Push

SpecHist == Init /\ [][NextHist]_vars

(***************************************************************************)
(* Properties.                                                             *)
(***************************************************************************)
\* the loop over the rings is exhausted, or the function has returned
PassDone == (pc = "ring" /\ i = mid_point + 1) \/ pc = "sleep"

ChannelOK(c) == \A k \in 1 .. 3 : c[k] \in 0 .. 255

\* C1: by the end of every cycle the decibel reading of that cycle's block
\* has been pushed into decibel_history, so the history is not empty and its
\* newest entry is that reading.
C1_ReadingPushedEveryCycle ==
    pc = "sleep" =>
        /\ Len(decibel_history) > 0
        /\ decibel_history[Len(decibel_history)] = decibels

\* a decibel argument that is a number below the base threshold
BelowBase(d) == (~d.nan) /\ d.num < BASE_THRESHOLD * d.den

\* C2: after a distribution pass with any colour and a decibel value below
\* the base threshold, every ring 0..mid_point has brightness 0 and all
\* NUM_PIXELS pixels are (0,0,0).
C2_DarkBelowBaseThreshold ==
    (PassDone /\ BelowBase(arg_decibels)) =>
        /\ \A k \in 0 .. mid_point : Brightness(arg_decibels, k) = 0
        /\ \A p \in PixelIndex : pixels[p] = Black

C2_Witness ==
    /\ pc = "sleep"
    /\ BelowBase(arg_decibels)
    /\ arg_color # Black
    /\ \A p \in PixelIndex : writes[p] > 0

\* C3: after every distribution pass, pixel[mid_point + k] equals
\* pixel[mid_point - k] for all k in 0..mid_point.
C3_MirrorSymmetry ==
    PassDone =>
        \A k \in 0 .. mid_point : pixels[mid_point + k] = pixels[mid_point - k]

C3_Witness ==
    /\ pc = "sleep"
    /\ pixels[mid_point] # Black
    /\ pixels[mid_point + 1] # pixels[mid_point]
    /\ pixels[mid_point + 1] # Black
    /\ pixels[0] = Black

\* the last n elements of s (all of s when it has fewer)
LastN(s, n) ==
    IF Len(s) <= n THEN s ELSE SubSeq(s, Len(s) - n + 1, Len(s))

\* C4: after any number of pushes decibel_history holds at most
\* SMOOTHING_WINDOW_SIZE readings, namely the most recent ones in the order
\* pushed (the oldest are evicted first); once at least SMOOTHING_WINDOW_SIZE
\* readings have been pushed, its mean is the arithmetic mean of exactly the
\* last SMOOTHING_WINDOW_SIZE of them.
C4_BoundedHistoryMean ==
    /\ Len(decibel_history) <= SMOOTHING_WINDOW_SIZE
    /\ decibel_history = LastN(pushed, SMOOTHING_WINDOW_SIZE)
    /\ Len(pushed) >= SMOOTHING_WINDOW_SIZE =>
         LET last == LastN(pushed, SMOOTHING_WINDOW_SIZE)
             total == SeqSum([k \in 1 .. SMOOTHING_WINDOW_SIZE |-> last[k].num])
             mean == Mean(decibel_history)
         IN  /\ ~mean.nan
             /\ mean.den > 0
             /\ mean.num * SMOOTHING_WINDOW_SIZE = total * mean.den

C4_Witness ==
    /\ Len(pushed) > SMOOTHING_WINDOW_SIZE
    /\ Len(decibel_history) = SMOOTHING_WINDOW_SIZE
    /\ pushed[1] # decibel_history[1]
    /\ decibel_history[1] # decibel_history[SMOOTHING_WINDOW_SIZE]

\* C5: the decibel value handed to the distributor is always a number, and
\* it is 0 when decibel_history is empty.
C5_MeanDefined ==
    pc \in {"ring", "sleep"} =>
        /\ ~arg_decibels.nan
        /\ (Len(decibel_history) = 0 => arg_decibels = Num(0))

\* C6: every cycle reaches the colour smoother; a smoothing step whose fresh
\* colour is (0,0,0) raises no channel of the display colour; and if from
\* some point on the fresh colour is always (0,0,0), the display colour
\* eventually is (0,0,0) and stays so.
C6_FadeToBlack ==
    /\ [][(pc = "smooth" /\ new_color = Black) =>
            \A k \in 1 .. 3 : current_color'[k] <= current_color[k]]_vars
    /\ ((pc = "read") ~> (pc = "smooth"))
    /\ (<>[](new_color = Black) => <>[](current_color = Black))

C6_Witness ==
    /\ pc = "call"
    /\ new_color = Black
    /\ current_color # Black
    /\ \E k \in 1 .. 3 : current_color[k] < arg_color[k]

\* C7: every channel of the mapped colour, of the display colour and of
\* every pixel of the strip is an integer in 0..255.
C7_ChannelsInRange ==
    /\ ChannelOK(new_color)
    /\ ChannelOK(current_color)
    /\ ChannelOK(arg_color)
    /\ \A p \in PixelIndex : ChannelOK(pixels[p])

C7_Witness ==
    /\ pc = "call"
    /\ new_color[3] = 255
    /\ new_color[2] = 255
    /\ current_color # Black
    /\ current_color # new_color

\* C8: for the block of zeros the analyser reports decibels 0 and all three
\* band energies 0, and the colour mapper returns (0,0,0) from its
\* short-circuit, without dividing.
C8_SilenceIsBlack ==
    data = ZeroBlock =>
        /\ decibels = Num(0)
        /\ low_energy = 0 /\ mid_energy = 0 /\ high_energy = 0
        /\ (pc # "map" => (new_color = Black /\ ~divided))

C8_Witness ==
    /\ pc = "smooth"
    /\ data = ZeroBlock
    /\ new_color = Black
    /\ current_color # Black

\* C9: the strip is flushed exactly once per cycle: not before the loop
\* over the rings is exhausted (so not between two pixel assignments), and
\* once by the time the cycle sleeps, when every pixel has been assigned.
C9_FlushOncePerCycle ==
    /\ (pc \in {"map", "smooth", "call", "ring"} => shows = 0)
    /\ (pc = "sleep" =>
            /\ shows = 1
            /\ i = mid_point + 1
            /\ \A p \in PixelIndex : writes[p] >= 1)
    /\ (pc = "read" => shows = (IF cycles = 0 THEN 0 ELSE 1))

C9_Witness ==
    /\ pc = "sleep"
    /\ shows = 1
    /\ current_color # Black

\* C10: in one distribution pass every pixel index 0..NUM_PIXELS-1 is
\* assigned exactly once, the centre index mid_point included.
C10_EveryPixelAssignedOnce ==
    PassDone => \A p \in PixelIndex : writes[p] = 1
====
